---- MODULE Spec2Model ----
(***************************************************************************)
(* Model of the DXF -> JSON converter (DXFtoJSONV12.py: entity_to_json,    *)
(* parse_dxf and the batch driver under __main__) and of the filter        *)
(* predicate of the renderer (renderer.py: render_filtered_view_base64).   *)
(*                                                                         *)
(* Numbers.  Coordinates are Python floats.  The only arithmetic the       *)
(* converter does on them is +, min, max, unary minus and one division by  *)
(* two (line 234-235).  A coordinate is held here as the integer count of  *)
(* half drawing units, so a drawing coordinate c is the integer 2*c and    *)
(* the division by two is exact, as it is in binary floating point.        *)
(*                                                                         *)
(* Exceptions.  A Python call either returns or raises.  Results of        *)
(* entity_to_json are records [kind |-> "data", data |-> d],               *)
(* [kind |-> "none"] (return None) or [kind |-> "raise"] (an exception     *)
(* leaves the call).                                                       *)
(*                                                                         *)
(* The length / area metrics (calculate_length, calculate_area) are        *)
(* evaluated inside the try block of the geometry branch and only add two  *)
(* keys to the entity; they are not modelled.                              *)
(***************************************************************************)
EXTENDS Integers, Sequences, FiniteSets, TLC

\* ------------------------------------------------------------------ bounds
\* drawing coordinates range over 0 .. MaxCoord
MaxCoord == 1
\* longest modelspace stream, block body, attribute list and flattened path
MaxLen == 2

\* ------------------------------------------------------------- small helpers
Min(S) == CHOOSE m \in S : \A s \in S : m <= s
Max(S) == CHOOSE m \in S : \A s \in S : m >= s
Range(s) == {s[i] : i \in 1..Len(s)}

SeqUpTo(S, n) == UNION {[1..k -> S] : k \in 0..n}

\* Python str.strip() on a string held as a sequence of one-character strings
RECURSIVE LStrip(_)
LStrip(s) == IF s # <<>> /\ Head(s) = " " THEN LStrip(Tail(s)) ELSE s

RECURSIVE RStrip(_)
RStrip(s) ==
    IF s # <<>> /\ s[Len(s)] = " " THEN RStrip(SubSeq(s, 1, Len(s) - 1)) ELSE s

Strip(s) == RStrip(LStrip(s))

\* ---------------------------------------------------------- colour resolver
\* ezdxf.colors.int2rgb is a table lookup of the library; the hex string it
\* yields is kept symbolic.
Hex(src, v) == [src |-> src, v |-> v]
Black == Hex("default", 0)

_aci_to_hex(aci) == IF aci < 0 \/ aci > 255 THEN Black ELSE Hex("aci", aci)

\* None is the JSON null of an entity that inherits its layer's colour
NoColor == Hex("none", 0)

get_entity_hex(entity) ==
    IF entity.true_color # -1 THEN Hex("rgb", entity.true_color)
    ELSE IF entity.color = 256 THEN NoColor
    ELSE _aci_to_hex(entity.color)

get_layer_hex(layer) ==
    IF layer.rgb # -1 THEN Hex("rgb", layer.rgb) ELSE _aci_to_hex(layer.color)

\* ------------------------------------------------------------- raw entities
\* What the CAD library hands over for one entity.  fault says which field
\* access of entity_to_json throws on it:
\*   "header"  layer / handle / color (lines 101-113),
\*   "body"    a type-specific field (text, insert, name, rotation, or
\*             make_path / flattening having no path for the entity),
\*   "none"    nothing throws.
\* true_color = -1 stands for "attribute not set".
Raw(tag, fault, text, insert, name, attribs, path) ==
    [dxftype |-> tag, fault |-> fault, handle |-> <<>>, layer |-> "0",
     true_color |-> -1, color |-> 256, text |-> text, insert |-> insert,
     name |-> name, attribs |-> attribs, path |-> path]

TextLike == {"TEXT", "MTEXT", "ATTRIB", "ATTDEF"}

\* ---------------------------------------------------------- entity_to_json
Header(entity) ==
    [type |-> entity.dxftype, layer |-> entity.layer,
     color_hex |-> get_entity_hex(entity), linetype |-> "Continuous",
     lineweight |-> -1, id |-> entity.handle]

Data(d) == [kind |-> "data", data |-> d]
None == [kind |-> "none"]
Raise == [kind |-> "raise"]

\* lines 116-131: the whole branch is inside try / except: return None
TextBranch(entity, data) ==
    IF entity.fault = "body" THEN None
    ELSE IF entity.text = <<>> \/ Strip(entity.text) = <<>> THEN None
    ELSE Data(data @@ [text |-> entity.text, insert |-> entity.insert,
                       rotation |-> 0])

\* lines 155-173: the whole branch is inside try / except: return None
GeometryBranch_noEmptyCheck(entity, data) ==
    IF entity.fault = "body" THEN None
    ELSE Data(data @@ [vertices |-> entity.path,
                       vertex_count |-> Len(entity.path)])

GeometryBranch(entity, data) ==
    IF entity.fault = "body" THEN None
    ELSE IF entity.path = <<>> THEN None
    ELSE Data(data @@ [vertices |-> entity.path,
                       vertex_count |-> Len(entity.path)])

\* the append of a loop body "x = entity_to_json(e); if x: lst.append(x)"
AppendResult_prepend(lst, x) == <<x>> \o lst

AppendResult(lst, x) == Append(lst, x)

\* lines 147-151: the attribute loop of an INSERT.  Attributes attached to an
\* INSERT are ATTRIB entities, so the recursive call takes the text branch
\* after the header; neither the loop nor the header is inside a try.
RECURSIVE AttribLoop(_, _)
AttribLoop(attribs, acc) ==
    IF attribs = <<>> THEN [kind |-> "ok", list |-> acc]
    ELSE LET a == Head(attribs)
             r == IF a.fault = "header" THEN Raise
                  ELSE TextBranch(a, Header(a))
         IN  IF r.kind = "raise" THEN Raise
             ELSE IF r.kind = "none" THEN AttribLoop(Tail(attribs), acc)
             ELSE AttribLoop(Tail(attribs), AppendResult(acc, r.data))

\* lines 134-152: no try around the branch
InsertBranch(entity, data) ==
    IF entity.fault = "body" THEN Raise
    ELSE LET as == AttribLoop(entity.attribs, <<>>)
         IN  IF as.kind = "raise" THEN Raise
             ELSE Data(data @@ [block_name |-> entity.name,
                                insert |-> entity.insert, rotation |-> 0,
                                scale |-> <<1, 1, 1>>,
                                attributes |-> as.list])

entity_to_json(entity) ==
    IF entity.fault = "header" THEN Raise
    ELSE IF entity.dxftype \in TextLike THEN TextBranch(entity, Header(entity))
    ELSE IF entity.dxftype = "INSERT" THEN InsertBranch(entity, Header(entity))
    ELSE GeometryBranch(entity, Header(entity))

\* lines 205-209 and 215-219: normalise a stream of raw entities in order,
\* keeping the results that are not None; an exception ends the loop
RECURSIVE EntityLoop(_, _)
EntityLoop(stream, acc) ==
    IF stream = <<>> THEN [kind |-> "ok", list |-> acc]
    ELSE LET r == entity_to_json(Head(stream))
         IN  IF r.kind = "raise" THEN Raise
             ELSE IF r.kind = "none" THEN EntityLoop(Tail(stream), acc)
             ELSE EntityLoop(Tail(stream), AppendResult(acc, r.data))

\* ------------------------------------------------------- parse_dxf, stages
StartsWith(name, ch) == name # <<>> /\ name[1] = ch

\* lines 200-211: the block table; anonymous blocks are skipped, a block
\* whose entities were all dropped is not stored
KeepBlock_keepAll(block) == TRUE

KeepBlock(block) == ~StartsWith(block.name, "*")

StoreBlock(block_entities) == block_entities # <<>>

RECURSIVE BlocksLoop(_, _)
BlocksLoop(table, acc) ==
    IF table = <<>> THEN [kind |-> "ok", map |-> acc]
    ELSE LET block == Head(table)
         IN  IF ~KeepBlock(block) THEN BlocksLoop(Tail(table), acc)
             ELSE LET r == EntityLoop(block.ents, <<>>)
                  IN  IF r.kind = "raise" THEN Raise
                      ELSE IF StoreBlock(r.list)
                      THEN BlocksLoop(Tail(table), (block.name :> r.list) @@ acc)
                      ELSE BlocksLoop(Tail(table), acc)

\* lines 193-198
LayersOf(table) ==
    [n \in {table[i].name : i \in 1..Len(table)} |->
        LET layer == CHOOSE l \in Range(table) : l.name = n
        IN  [color |-> get_layer_hex(layer), frozen |-> layer.frozen,
             locked |-> layer.locked]]

\* lines 222-230: the coordinates the offset is computed from
HasKey(e, k) == k \in DOMAIN e

CoordsOf_withAttribs(e) ==
    IF HasKey(e, "vertices") THEN Range(e.vertices)
    ELSE IF HasKey(e, "attributes")
    THEN {e.insert} \cup {e.attributes[j].insert : j \in 1..Len(e.attributes)}
    ELSE IF HasKey(e, "insert") THEN {e.insert}
    ELSE {}

CoordsOf(e) ==
    IF HasKey(e, "vertices") THEN Range(e.vertices)
    ELSE IF HasKey(e, "insert") THEN {e.insert}
    ELSE {}

AllCoords(ents) == UNION {CoordsOf(ents[i]) : i \in 1..Len(ents)}

\* lines 232-236; (a + b) / 2 of two drawing coordinates, in half units
Centre_min(S) == Min(S)

Centre(S) == (Min(S) + Max(S)) \div 2

computeOffset(ents) ==
    LET all == AllCoords(ents)
    IN  IF all = {} THEN <<0, 0>>
        ELSE << -Centre({p[1] : p \in all}), -Centre({p[2] : p \in all}) >>

\* lines 239-248
Shift(p, off) == <<p[1] + off[1], p[2] + off[2]>>

ShiftAttribs_skip(attrs, off) == attrs

ShiftAttribs(attrs, off) ==
    [j \in 1..Len(attrs) |->
        [attrs[j] EXCEPT !.insert = Shift(attrs[j].insert, off)]]

ShiftEntity(e, off) ==
    LET e1 == IF HasKey(e, "vertices")
              THEN [e EXCEPT !.vertices =
                        [k \in 1..Len(e.vertices) |-> Shift(e.vertices[k], off)]]
              ELSE e
        e2 == IF HasKey(e1, "insert")
              THEN [e1 EXCEPT !.insert = Shift(e1.insert, off)]
              ELSE e1
    IN  IF e2.type = "INSERT" /\ HasKey(e2, "attributes")
        THEN [e2 EXCEPT !.attributes = ShiftAttribs(e2.attributes, off)]
        ELSE e2

applyOffset(ents, off) == [i \in 1..Len(ents) |-> ShiftEntity(ents[i], off)]

\* the pass of lines 239-248 iterates over `entities` alone; `blocks` is not
\* among the objects it writes
OffsetPass_alsoBlocks(ents, blks, off) ==
    [entities |-> applyOffset(ents, off),
     blocks |-> [n \in DOMAIN blks |-> applyOffset(blks[n], off)]]

OffsetPass(ents, blks, off) ==
    [entities |-> applyOffset(ents, off), blocks |-> blks]

\* line 284: "if not data"
ParseFailed_never(res) == FALSE

ParseFailed(res) == res.kind = "none"

\* ------------------------------------------------------------------ inputs
\* Points lie on the anti-diagonal of the coordinate square, so x and y of a
\* point differ and both bounding-box axes are exercised.
Points == {<<2 * x, 2 * (MaxCoord - x)>> : x \in 0..MaxCoord}
P0 == <<0, 2 * MaxCoord>>

\* a flattened path of n points: a staircase starting at p
PolyFrom(p, n) ==
    [k \in 1..n |-> <<p[1] + 2 * (k \div 2), p[2] + 2 * ((k - 1) \div 2)>>]

NameB == <<"B">>
NameC == <<"C">>
NameAnon == <<"*", "U">>

HeaderFault == Raw("LINE", "header", <<>>, <<0, 0>>, <<>>, <<>>, <<>>)
TextFault == Raw("TEXT", "body", <<>>, <<0, 0>>, <<>>, <<>>, <<>>)
BlankText == Raw("TEXT", "none", <<" ">>, P0, <<>>, <<>>, <<>>)
TextAt(p) == Raw("TEXT", "none", <<"A">>, p, <<>>, <<>>, <<>>)
Unsupported == Raw("DIMENSION", "body", <<>>, <<0, 0>>, <<>>, <<>>, <<>>)
Poly(p, n) == Raw("LWPOLYLINE", "none", <<>>, <<0, 0>>, <<>>, <<>>, PolyFrom(p, n))
InsertFault == Raw("INSERT", "body", <<>>, <<0, 0>>, <<>>, <<>>, <<>>)
InsertAt(p, name, attribs) == Raw("INSERT", "none", <<>>, p, name, attribs, <<>>)
AttribFault == Raw("ATTRIB", "header", <<>>, <<0, 0>>, <<>>, <<>>, <<>>)
AttribBlank == Raw("ATTRIB", "none", <<" ">>, P0, <<>>, <<>>, <<>>)
AttribAt(p) == Raw("ATTRIB", "none", <<"A">>, p, <<>>, <<>>, <<>>)

Polys == {Poly(p, n) : p \in Points, n \in 0..MaxLen}

ModelspaceShapes ==
    {HeaderFault, TextFault, BlankText, Unsupported, InsertFault}
    \cup {TextAt(p) : p \in Points} \cup Polys
    \cup {InsertAt(p, NameB, <<>>) : p \in Points}
    \cup {InsertAt(p, NameB, <<AttribAt(q)>>) : p \in Points, q \in Points}

AttribShapes == {AttribFault, AttribBlank} \cup {AttribAt(p) : p \in Points}

BlockShapes == {HeaderFault, BlankText, TextAt(P0), Poly(P0, MaxLen)}

LayerTable ==
    << [name |-> "0", rgb |-> -1, color |-> 7, frozen |-> FALSE, locked |-> FALSE],
       [name |-> "A-WALL", rgb |-> -1, color |-> 256, frozen |-> TRUE,
        locked |-> FALSE] >>

Block(name, ents) == [name |-> name, ents |-> ents]

TypicalBlocks ==
    << Block(NameB, <<Poly(P0, MaxLen), TextAt(P0)>>),
       Block(NameAnon, <<Poly(P0, MaxLen)>>) >>

\* the library numbers the entities of a document: handles are unique
WithHandle(raw, h) ==
    [raw EXCEPT !.handle = h,
                !.attribs = [j \in 1..Len(raw.attribs) |->
                                [raw.attribs[j] EXCEPT !.handle = h \o <<j>>]]]

Numbered(stream, b) == [i \in 1..Len(stream) |-> WithHandle(stream[i], <<b, i>>)]

Doc(table, msp) ==
    [layers |-> LayerTable,
     blocks |-> [b \in 1..Len(table) |->
                    Block(table[b].name, Numbered(table[b].ents, b))],
     msp |-> Numbered(msp, 0)]

\* modelspace-rich documents
DocsM == {Doc(TypicalBlocks, msp) : msp \in SeqUpTo(ModelspaceShapes, MaxLen)}

\* documents with one block reference carrying attributes
DocsI ==
    {Doc(<<>>, <<InsertAt(p, n, as)>> \o rest) :
        p \in Points, n \in {NameB, NameAnon},
        as \in SeqUpTo(AttribShapes, MaxLen),
        rest \in {<<>>} \cup {<<TextAt(q)>> : q \in Points}}

\* block-table-rich documents
AnonBlock == Block(NameAnon, <<Poly(P0, MaxLen)>>)
BlockC == Block(NameC, <<TextAt(P0)>>)

DocsB ==
    {Doc(<<Block(n, ents)>> \o more,
         <<InsertAt(P0, NameAnon, <<AttribAt(P0), AttribBlank, AttribAt(P0)>>),
           BlankText, Poly(P0, MaxLen)>>) :
        n \in {NameB, NameAnon}, ents \in SeqUpTo(BlockShapes, MaxLen),
        more \in {<<>>, <<BlockC>>, <<AnonBlock, BlockC>>}}

Docs == DocsM \cup DocsI \cup DocsB

\* ------------------------------------------------------------------- state
\* converter (parse_dxf and its driver)
VARIABLES pc, doc, failure, layers, blocks, entities, offset, result, saved,
          log, converted, skipped, failed
\* renderer (one call of render_filtered_view_base64)
VARIABLES rpc, data, filters, show_background, bg_segs, fg_segs, hatch_regions

cvars == <<pc, doc, failure, layers, blocks, entities, offset, result, saved,
           log, converted, skipped, failed>>
rvars == <<rpc, data, filters, show_background, bg_segs, fg_segs, hatch_regions>>
vars == <<cvars, rvars>>

Pending == [kind |-> "pending"]
Absent == [kind |-> "absent"]

\* no render call in flight
RenderIdle ==
    /\ rpc = "idle"
    /\ data = <<>>
    /\ filters = [layers |-> {}, types |-> {}, ids |-> {}]
    /\ show_background = TRUE
    /\ bg_segs = <<>>
    /\ fg_segs = <<>>
    /\ hatch_regions = <<>>

Init ==
    /\ RenderIdle
    /\ pc = "main"
    /\ doc \in Docs
    /\ failure = "none"
    /\ layers = <<>>
    /\ blocks = <<>>
    /\ entities = <<>>
    /\ offset = <<0, 0>>
    /\ result = Pending
    /\ saved = Absent
    /\ log = <<>>
    /\ converted = 0
    /\ skipped = 0
    /\ failed = 0

parseVars == <<layers, blocks, entities, offset, result>>
mainVars == <<saved, log, converted, skipped, failed>>

\* lines 277-280: the JSON file already exists
SkipExisting ==
    /\ pc = "main"
    /\ UNCHANGED rvars
    /\ pc' = "end"
    /\ skipped' = skipped + 1
    /\ log' = Append(log, "Skipping")
    /\ UNCHANGED <<doc, failure, parseVars, saved, converted, failed>>

\* line 283: parse_dxf is entered
CallParse ==
    /\ pc = "main"
    /\ UNCHANGED rvars
    /\ pc' = "read"
    /\ UNCHANGED <<doc, failure, parseVars, mainVars>>

\* lines 181-182: ezdxf.readfile returns
ReadFile ==
    /\ pc = "read"
    /\ UNCHANGED rvars
    /\ pc' = "layers"
    /\ UNCHANGED <<doc, failure, parseVars, mainVars>>

\* lines 183-185: ezdxf.readfile raises; parse_dxf prints and returns None
ReadFileFails ==
    /\ pc = "read"
    /\ UNCHANGED rvars
    /\ failure' = "read"
    /\ log' = Append(log, "Error")
    /\ result' = None
    /\ pc' = "returned"
    /\ UNCHANGED <<doc, layers, blocks, entities, offset, saved, converted,
                   skipped, failed>>

\* an exception leaves parse_dxf from the given stage
Raised(stage) ==
    /\ failure' = stage
    /\ result' = Raise
    /\ pc' = "returned"

\* lines 192-198
Layers ==
    /\ pc = "layers"
    /\ UNCHANGED rvars
    /\ layers' = LayersOf(doc.layers)
    /\ pc' = "blocks"
    /\ UNCHANGED <<doc, failure, blocks, entities, offset, result, mainVars>>

LayersFail ==
    /\ pc = "layers"
    /\ UNCHANGED rvars
    /\ Raised("layers")
    /\ UNCHANGED <<doc, layers, blocks, entities, offset, mainVars>>

\* lines 200-211
Blocks ==
    /\ pc = "blocks"
    /\ UNCHANGED rvars
    /\ LET r == BlocksLoop(doc.blocks, <<>>)
       IN  IF r.kind = "raise"
           THEN Raised("entity") /\ UNCHANGED blocks
           ELSE /\ blocks' = r.map
                /\ pc' = "modelspace"
                /\ UNCHANGED <<failure, result>>
    /\ UNCHANGED <<doc, layers, entities, offset, mainVars>>

BlocksFail ==
    /\ pc = "blocks"
    /\ UNCHANGED rvars
    /\ Raised("blocks")
    /\ UNCHANGED <<doc, layers, blocks, entities, offset, mainVars>>

\* lines 213-219
Modelspace ==
    /\ pc = "modelspace"
    /\ UNCHANGED rvars
    /\ LET r == EntityLoop(doc.msp, <<>>)
       IN  IF r.kind = "raise"
           THEN Raised("entity") /\ UNCHANGED entities
           ELSE /\ entities' = r.list
                /\ pc' = "offset"
                /\ UNCHANGED <<failure, result>>
    /\ UNCHANGED <<doc, layers, blocks, offset, mainVars>>

ModelspaceFail ==
    /\ pc = "modelspace"
    /\ UNCHANGED rvars
    /\ Raised("modelspace")
    /\ UNCHANGED <<doc, layers, blocks, entities, offset, mainVars>>

\* lines 221-236
ComputeOffset ==
    /\ pc = "offset"
    /\ UNCHANGED rvars
    /\ offset' = computeOffset(entities)
    /\ pc' = "apply"
    /\ UNCHANGED <<doc, failure, layers, blocks, entities, result, mainVars>>

\* lines 238-248
ApplyOffset ==
    /\ pc = "apply"
    /\ UNCHANGED rvars
    /\ LET r == OffsetPass(entities, blocks, offset)
       IN  entities' = r.entities /\ blocks' = r.blocks
    /\ pc' = "return"
    /\ UNCHANGED <<doc, failure, layers, offset, result, mainVars>>

\* lines 250-258
Return ==
    /\ pc = "return"
    /\ UNCHANGED rvars
    /\ result' = [kind |-> "doc", offset |-> offset, layers |-> layers,
                  blocks |-> blocks, entities |-> entities]
    /\ pc' = "returned"
    /\ UNCHANGED <<doc, failure, layers, blocks, entities, offset, mainVars>>

\* lines 284-287
MainFailed ==
    /\ pc = "returned"
    /\ UNCHANGED rvars
    /\ result.kind # "raise"
    /\ ParseFailed(result)
    /\ log' = Append(log, "Failed to parse")
    /\ failed' = failed + 1
    /\ pc' = "end"
    /\ UNCHANGED <<doc, failure, parseVars, saved, converted, skipped>>

\* lines 289-293
MainSave ==
    /\ pc = "returned"
    /\ UNCHANGED rvars
    /\ result.kind # "raise"
    /\ ~ParseFailed(result)
    /\ saved' = result
    /\ log' = Append(log, "Saved")
    /\ converted' = converted + 1
    /\ pc' = "end"
    /\ UNCHANGED <<doc, failure, parseVars, skipped, failed>>

\* lines 295-297
MainCaught ==
    /\ pc = "returned"
    /\ UNCHANGED rvars
    /\ result.kind = "raise"
    /\ log' = Append(log, "Error processing")
    /\ failed' = failed + 1
    /\ pc' = "end"
    /\ UNCHANGED <<doc, failure, parseVars, saved, converted, skipped>>

Next ==
    \/ SkipExisting
    \/ CallParse
    \/ ReadFile
    \/ ReadFileFails
    \/ Layers
    \/ LayersFail
    \/ Blocks
    \/ BlocksFail
    \/ Modelspace
    \/ ModelspaceFail
    \/ ComputeOffset
    \/ ApplyOffset
    \/ Return
    \/ MainFailed
    \/ MainSave
    \/ MainCaught

Spec == Init /\ [][Next]_vars

\* ---------------------------------------------------------------- renderer
\* renderer.py lines 51-60.  A filter that is absent or empty does not
\* restrict; str(id) of a handle, which the converter stores as a string, is
\* that string.
is_filtered(e, flt) ==
    LET ok_layer == (flt.layers = {}) \/ (e.layer \in flt.layers)
        ok_type == (flt.types = {}) \/ (e.type \in flt.types)
        ok_id == (flt.ids = {}) \/ (e.id \in flt.ids)
    IN  ok_layer /\ ok_type /\ ok_id

\* lines 76-77 and 98-99: "verts and len(verts) > 1"
Drawable(e) == HasKey(e, "vertices") /\ Len(e.vertices) > 1

\* lines 70-78
RECURSIVE Background(_, _)
Background(ents, acc) ==
    IF ents = <<>> THEN acc
    ELSE LET e == Head(ents)
         IN  IF e.type \in {"INSERT", "HATCH", "MTEXT", "TEXT"}
             THEN Background(Tail(ents), acc)
             ELSE IF Drawable(e)
             THEN Background(Tail(ents), Append(acc, e.vertices))
             ELSE Background(Tail(ents), acc)

\* lines 87-100: returns the pair fg_segs, hatch_regions
RECURSIVE Foreground(_, _, _, _)
Foreground(ents, flt, fg, hatch) ==
    IF ents = <<>> THEN [fg |-> fg, hatch |-> hatch]
    ELSE LET e == Head(ents)
         IN  IF ~is_filtered(e, flt) THEN Foreground(Tail(ents), flt, fg, hatch)
             ELSE IF e.type = "HATCH" /\ HasKey(e, "vertices")
             THEN Foreground(Tail(ents), flt, fg, Append(hatch, e.vertices))
             ELSE IF Drawable(e)
             THEN Foreground(Tail(ents), flt, Append(fg, e.vertices), hatch)
             ELSE Foreground(Tail(ents), flt, fg, hatch)

\* entities of a converted document, as the renderer reads them; entity i
\* has its own vertices, so a segment identifies the entity it was drawn from
REntity(layer, type, i) ==
    IF type = "TEXT"
    THEN [layer |-> layer, type |-> type, id |-> <<i>>, insert |-> <<0, 0>>]
    ELSE [layer |-> layer, type |-> type, id |-> <<i>>,
          vertices |-> PolyFrom(<<2 * i, 0>>, 2)]

RLayers == {"A-WALL", "A-DOOR"}
RTypes == {"LINE", "HATCH", "TEXT"}
RIds == {<<i>> : i \in 1..MaxLen}

RData ==
    UNION {{[i \in 1..k |-> REntity(ls[i], ts[i], i)] :
                ls \in [1..k -> RLayers], ts \in [1..k -> RTypes]} : k \in 1..MaxLen}

RFilters ==
    [layers : SUBSET RLayers, types : SUBSET RTypes, ids : SUBSET RIds]

\* the converter is not running
ConverterIdle ==
    /\ pc = "end"
    /\ doc = Doc(<<>>, <<>>)
    /\ failure = "none"
    /\ layers = <<>>
    /\ blocks = <<>>
    /\ entities = <<>>
    /\ offset = <<0, 0>>
    /\ result = Pending
    /\ saved = Absent
    /\ log = <<>>
    /\ converted = 0
    /\ skipped = 0
    /\ failed = 0

RenderInit ==
    /\ ConverterIdle
    /\ rpc = "request"
    /\ data \in RData
    /\ filters \in RFilters
    /\ show_background \in BOOLEAN
    /\ bg_segs = <<>>
    /\ fg_segs = <<>>
    /\ hatch_regions = <<>>

\* render_filtered_view_base64, lines 47-108
Render ==
    /\ rpc = "request"
    /\ bg_segs' = IF show_background THEN Background(data, <<>>) ELSE <<>>
    /\ LET r == Foreground(data, filters, <<>>, <<>>)
       IN  fg_segs' = r.fg /\ hatch_regions' = r.hatch
    /\ rpc' = "done"
    /\ UNCHANGED <<data, filters, show_background, cvars>>

RenderNext == Render

SpecRender == RenderInit /\ [][RenderNext]_vars

\* ================================================================== claims
\* helpers of the claims (stated from the claims' words, not from the code)
IdsOf(ents) == [i \in 1..Len(ents) |-> ents[i].id]
HandlesOf(stream) == [i \in 1..Len(stream) |-> stream[i].handle]

\* the modelspace loop has finished normally
Normalised == pc \in {"offset", "apply", "return"} \/ result.kind = "doc"
\* the offset pass has run
Applied == pc = "return" \/ result.kind = "doc"
\* the step of the offset pass
OffsetStep == pc = "apply" /\ pc' = "return"

DocStages == {"read", "layers", "blocks", "modelspace"}

\* every vertex of every geometry entity and every insertion point of every
\* text / block-reference entity of a list
TopLevelPoints(ents) ==
    UNION {(IF HasKey(ents[i], "vertices") THEN Range(ents[i].vertices) ELSE {})
           \cup (IF HasKey(ents[i], "insert") THEN {ents[i].insert} ELSE {}) :
           i \in 1..Len(ents)}

Xs(pts) == {p[1] : p \in pts}
Ys(pts) == {p[2] : p \in pts}

Centred(pts) ==
    /\ Min(Xs(pts)) + Max(Xs(pts)) = 0
    /\ Min(Ys(pts)) + Max(Ys(pts)) = 0

\* a raw entity the claims call well-formed and non-degenerate
WellFormed(raw) ==
    /\ raw.fault = "none"
    /\ raw.dxftype \in TextLike => Strip(raw.text) # <<>>
    /\ raw.dxftype \notin TextLike \cup {"INSERT"} => raw.path # <<>>

\* s is t with some elements removed, the rest in t's order (t has no repeats)
OrderedWithin(s, t) ==
    /\ Range(s) \subseteq Range(t)
    /\ \A i, j \in 1..Len(s) :
          i < j => (CHOOSE k \in 1..Len(t) : t[k] = s[i])
                     < (CHOOSE k \in 1..Len(t) : t[k] = s[j])

RawByHandle(stream, h) == CHOOSE r \in Range(stream) : r.handle = h

\* ---- C1
\* C1 (as claimed): a malformed entity, whichever field access throws on it,
\* is dropped alone: parse_dxf never raises because of an entity, and once
\* the modelspace loop is over the entity list holds exactly the well-formed
\* modelspace entities.
C1_EntityIsolation ==
    /\ failure # "entity"
    /\ Normalised =>
          IdsOf(entities) = HandlesOf(SelectSeq(doc.msp, WellFormed))

\* ---- C2
\* C2: after the offset pass the bounding box of all top-level modelspace
\* coordinates is centred at the origin; with no coordinates the offset is
\* (0, 0).
C2_OffsetCentering ==
    Applied =>
        IF TopLevelPoints(entities) = {} THEN offset = <<0, 0>>
        ELSE Centred(TopLevelPoints(entities))

C2_Witness ==
    /\ Applied
    /\ offset[1] % 2 # 0
    /\ offset[2] # 0
    /\ \E i, j \in 1..Len(entities) :
          HasKey(entities[i], "vertices") /\ HasKey(entities[j], "attributes")

\* ---- C3
\* C3: the offset pass adds the reported offset exactly once to every vertex,
\* every insertion point and every nested attribute insertion point of the
\* modelspace entities, and the returned document reports that offset.
C3_ShiftedOnce(e, f, off) ==
    /\ DOMAIN f = DOMAIN e
    /\ HasKey(e, "vertices") =>
          /\ Len(f.vertices) = Len(e.vertices)
          /\ \A k \in 1..Len(e.vertices) :
                f.vertices[k] = <<e.vertices[k][1] + off[1], e.vertices[k][2] + off[2]>>
    /\ HasKey(e, "insert") =>
          f.insert = <<e.insert[1] + off[1], e.insert[2] + off[2]>>
    /\ HasKey(e, "attributes") =>
          /\ Len(f.attributes) = Len(e.attributes)
          /\ \A j \in 1..Len(e.attributes) :
                f.attributes[j].insert =
                    <<e.attributes[j].insert[1] + off[1],
                      e.attributes[j].insert[2] + off[2]>>

C3_OffsetAppliedOnce ==
    /\ [][OffsetStep =>
            /\ offset' = offset
            /\ Len(entities') = Len(entities)
            /\ \A i \in 1..Len(entities) :
                  C3_ShiftedOnce(entities[i], entities'[i], offset)]_vars
    /\ [][pc # "apply" => entities' = entities \/ pc = "modelspace"]_vars
    /\ [](result.kind = "doc" =>
            result.offset = offset /\ result.entities = entities)

C3_Witness ==
    /\ Applied
    /\ offset[1] # 0
    /\ offset[2] # 0
    /\ \E i, j \in 1..Len(entities) :
          /\ HasKey(entities[i], "vertices")
          /\ HasKey(entities[j], "attributes")
          /\ entities[j].attributes # <<>>

\* ---- C4
\* C4: the offset pass leaves every entity stored under `blocks` as entity
\* normalisation produced it, and the offset is the centre of the modelspace
\* coordinates alone.
C4_BlocksNeverOffset ==
    /\ [][(pc \in {"modelspace", "offset", "apply", "return"}) =>
            blocks' = blocks]_vars
    /\ [](result.kind = "doc" => result.blocks = blocks)
    /\ [](pc = "apply" =>
            IF TopLevelPoints(entities) = {} THEN offset = <<0, 0>>
            ELSE /\ -2 * offset[1] = Min(Xs(TopLevelPoints(entities)))
                                       + Max(Xs(TopLevelPoints(entities)))
                 /\ -2 * offset[2] = Min(Ys(TopLevelPoints(entities)))
                                       + Max(Ys(TopLevelPoints(entities))))

C4_Witness ==
    /\ Applied
    /\ offset[1] # 0
    /\ offset[2] # 0
    /\ \E n \in DOMAIN blocks : \E i \in 1..Len(blocks[n]) :
          HasKey(blocks[n][i], "vertices")

\* ---- C5
AllEmitted ==
    Range(entities) \cup UNION {Range(blocks[n]) : n \in DOMAIN blocks}

\* C5 (as claimed): every emitted geometry entity has vertex_count equal to
\* the length of vertices and at least 2.
C5_AtLeastTwoVertices ==
    \A e \in AllEmitted :
        HasKey(e, "vertices") =>
            e.vertex_count = Len(e.vertices) /\ e.vertex_count >= 2

\* C5 (amended): every emitted geometry entity has vertex_count equal to the
\* length of vertices and at least 1.
C5_AtLeastOneVertex ==
    \A e \in AllEmitted :
        HasKey(e, "vertices") =>
            e.vertex_count = Len(e.vertices) /\ e.vertex_count >= 1

C5_Witness ==
    /\ Applied
    /\ \E e \in Range(entities) : HasKey(e, "vertices") /\ e.vertex_count = 1
    /\ \E e \in Range(entities) : HasKey(e, "vertices") /\ e.vertex_count > 1

\* ---- C6
\* C6: entities, each blocks[name] and each attributes list is the source
\* sequence with the dropped entities removed, in source order, before and
\* after the offset pass.
C6_OrderPreserved ==
    /\ Normalised =>
          /\ OrderedWithin(IdsOf(entities), HandlesOf(doc.msp))
          /\ Range(IdsOf(entities))
                = {r.handle : r \in {x \in Range(doc.msp) : WellFormed(x)}}
          /\ \A e \in Range(entities) :
                HasKey(e, "attributes") =>
                    LET raw == RawByHandle(doc.msp, e.id)
                    IN  /\ OrderedWithin(IdsOf(e.attributes), HandlesOf(raw.attribs))
                        /\ Range(IdsOf(e.attributes))
                              = {a.handle : a \in {x \in Range(raw.attribs) :
                                                      WellFormed(x)}}
    /\ \A n \in DOMAIN blocks :
          \E b \in Range(doc.blocks) :
              /\ b.name = n
              /\ OrderedWithin(IdsOf(blocks[n]), HandlesOf(b.ents))
              /\ Range(IdsOf(blocks[n]))
                    = {r.handle : r \in {x \in Range(b.ents) : WellFormed(x)}}

C6_Witness ==
    /\ Applied
    /\ Len(entities) >= 2
    /\ Len(entities) < Len(doc.msp)
    /\ \E e \in Range(entities) :
          /\ HasKey(e, "attributes")
          /\ Len(e.attributes) >= 2
          /\ Len(e.attributes) < Len(RawByHandle(doc.msp, e.id).attribs)
    /\ \E n \in DOMAIN blocks : Len(blocks[n]) >= 2

\* ---- C7
\* C7: no key of `blocks` is an anonymous block name, and every key maps to a
\* non-empty list.
C7_NoAnonymousNoEmpty ==
    /\ \A n \in DOMAIN blocks : n[1] # "*" /\ Len(blocks[n]) >= 1
    /\ result.kind = "doc" => result.blocks = blocks

C7_Witness ==
    /\ result.kind = "doc"
    /\ DOMAIN blocks # {}
    /\ \E b \in Range(doc.blocks) :
          b.name[1] = "*" /\ \E r \in Range(b.ents) : WellFormed(r)
    /\ \E b \in Range(doc.blocks) :
          b.name[1] # "*" /\ b.ents # <<>> /\ b.name \notin DOMAIN blocks
    /\ \E r \in Range(doc.msp) : r.dxftype = "INSERT" /\ r.name[1] = "*"

\* ---- C8
ErrorReports == SelectSeq(log, LAMBDA m : m \notin {"Saved", "Skipping"})

\* the converter's messages are fixed texts plus the file name and the
\* library's exception text: none of the texts is a stage name
StageNamedIn(m) == IF m \in DocStages THEN m ELSE "unnamed"

\* C8 (as claimed): a document-level failure aborts the conversion, is
\* reported as a single error that identifies the failing stage, and leaves
\* no document.
C8_SingleStageError ==
    (failure \in DocStages /\ pc = "end") =>
        /\ result.kind # "doc"
        /\ saved = Absent
        /\ Len(ErrorReports) = 1
        /\ StageNamedIn(ErrorReports[1]) = failure

\* C8 (amended): a document-level failure aborts the conversion and leaves no
\* document, returned or written: a read failure makes parse_dxf print the
\* error and return None, which the driver reports as a failed parse; a
\* failure of the layer table, block table or modelspace leaves parse_dxf as
\* an exception, which the driver reports once; the file is counted failed.
C8_AbortNoDocument ==
    failure \in DocStages =>
        /\ result.kind # "doc"
        /\ saved = Absent
        /\ converted = 0
        /\ failure = "read" =>
              /\ result = None
              /\ pc = "end" => log = <<"Error", "Failed to parse">>
        /\ failure # "read" =>
              /\ result = Raise
              /\ pc = "end" => log = <<"Error processing">>
        /\ pc = "end" => failed = 1

C8_Witness ==
    /\ failure = "modelspace"
    /\ pc = "end"
    /\ DOMAIN blocks # {}
    /\ layers # <<>>

\* ---- C9
\* C9 (as claimed): with several filters given, an entity that matches at
\* least one of them is drawn in the foreground.
MatchesAny(e, flt) ==
    \/ e.layer \in flt.layers
    \/ e.type \in flt.types
    \/ e.id \in flt.ids

C9_MatchAny ==
    rpc = "done" =>
        \A e \in Range(data) :
            (Drawable(e) /\ MatchesAny(e, filters)) =>
                e.vertices \in Range(fg_segs) \cup Range(hatch_regions)

\* ---- C10
\* entity i's attribute j moved to q
MoveAttrib(ents, i, j, q) ==
    [ents EXCEPT ![i].attributes[j].insert = q]

FarPoints == Points \cup {<<-2 * MaxCoord - 2, 4 * MaxCoord + 2>>}

\* C10: the offset is the same for any two modelspace lists that differ only
\* in the insertion point of a nested attribute.
C10_OffsetIgnoresAttributes ==
    pc = "apply" =>
        \A i \in 1..Len(entities) :
            HasKey(entities[i], "attributes") =>
                \A j \in 1..Len(entities[i].attributes) : \A q \in FarPoints :
                    computeOffset(MoveAttrib(entities, i, j, q)) = offset

\* after the pass a nested attribute lies outside the centred bounding box
C10_Witness ==
    /\ Applied
    /\ \E e \in Range(entities) :
          /\ HasKey(e, "attributes")
          /\ \E a \in Range(e.attributes) :
                \/ a.insert[1] > Max(Xs(TopLevelPoints(entities)))
                \/ a.insert[2] < Min(Ys(TopLevelPoints(entities)))

====
